---- MODULE Spec2Model ----
(***************************************************************************)
(* A model of aws-lambda-radar: the execution timer (performance.ts), the  *)
(* cold-start flag (info.ts), the context logger (logging.ts), the         *)
(* middleware (middleware.ts) and the method decorators (decorators.ts).   *)
(*                                                                         *)
(* Four specifications share the module:                                   *)
(*   SpecTimer    one timer object driven by mark/measure calls under a    *)
(*                monotonic clock;                                         *)
(*   Spec         one process serving invocations of wrapped handlers and  *)
(*                direct info/logger calls;                                *)
(*   SpecLogger   handler code creating loggers and logging lines;         *)
(*   SpecDecorate one method of a class being annotated and decorated,     *)
(*                then called.                                             *)
(***************************************************************************)
EXTENDS Integers, Sequences, FiniteSets, TLC

VARIABLES
    clock,      \* process.hrtime(): the monotonic clock, in nanoseconds
    ticks,      \* how many times the model advanced the clock
    marks,      \* timer: own properties of the `marks` object
    measures,   \* timer: own properties of the `measures` object
    ret,        \* timer: the last call made on the timer and how it ended
    lastMark,   \* history: the instant captured by the most recent mark(name)
    calls,      \* number of timer calls made so far
    isFirstInvocation,  \* info.ts: the module-level cold-start flag
    nodeEnvDevelopment, \* process.env.NODE_ENV === "development"
    logStreamEnv,       \* process.env.AWS_LAMBDA_LOG_STREAM_NAME
    reads,      \* history: the coldStart value each read of the flag yielded
    readers,    \* history: the functions that have read the flag so far
    deployed,   \* the wrapped handler the module exports
    last,       \* the last call served by the process and what it did
    served,     \* number of calls served by the process so far
    descriptor, \* the PropertyDescriptor of the decorated method
    metadata,   \* reflect-metadata of (target, propertyKey)
    annotated,  \* history: the annotations attached by the class author
    applied,    \* history: the wrapping decorators, in order of application
    step        \* history: the last decoration step

timerVars == <<ticks, marks, measures, ret, lastMark, calls>>

processVars == <<isFirstInvocation, nodeEnvDevelopment, logStreamEnv, reads,
                 readers, deployed, last, served>>

classVars == <<descriptor, metadata, annotated, applied, step>>

vars == <<clock, ticks, marks, measures, ret, lastMark, calls,
          isFirstInvocation, nodeEnvDevelopment, logStreamEnv, reads,
          readers, deployed, last, served, descriptor, metadata, annotated,
          applied, step>>

(***************************************************************************)
(* Bounds of the model.                                                    *)
(***************************************************************************)
MaxTicks == 2
MaxClock == 2000000000
MaxCalls == 3
MaxChain == 2
MaxServed == 3
MaxStack == 3
MaxMethodCalls == 1

(***************************************************************************)
(* The clock.  process.hrtime() returns [seconds, nanoseconds].            *)
(***************************************************************************)
NanosPerSec == 1000000000

hrtime(t) == <<t \div NanosPerSec, t % NanosPerSec>>

\* The instant an hrtime pair stands for, in nanoseconds (history only).
Nanos(p) == p[1] * NanosPerSec + p[2]

ClockSteps == {1, 999999999}

(***************************************************************************)
(* JavaScript values the timer code meets.                                 *)
(***************************************************************************)
\* A number that is a duration: (diff[0] * 1e9 + diff[1]) / 1e6 milliseconds.
\* The model keeps the numerator (nanoseconds); the division by 1e6 keeps
\* its sign and its order.  NaN is what arithmetic on undefined yields.
Num(n) == [kind |-> "number", ns |-> n]
NaN == [kind |-> "NaN", ns |-> 0]

\* Names every plain object inherits from Object.prototype: marks[name] is
\* a (truthy) function for these even when the name was never assigned.
ProtoNames == {"constructor"}

MarkNames == {"a", "b", "", "constructor"}
MeasureNames == {"m", "n"}

\* The optional endMark argument: not passed, or a string.
NoEnd == [given |-> FALSE, name |-> ""]
EndArg(n) == [given |-> TRUE, name |-> n]
EndArgs == {NoEnd} \cup {EndArg(n) : n \in MarkNames}

\* marks[name] as JavaScript evaluates it on a plain object.
Get(obj, name) ==
    IF name \in DOMAIN obj THEN [kind |-> "instant", at |-> obj[name]]
    ELSE IF name \in ProtoNames THEN [kind |-> "inherited", at |-> <<0, 0>>]
    ELSE [kind |-> "undefined", at |-> <<0, 0>>]

Truthy(v) == v.kind # "undefined"

\* obj[name] = value
Put(obj, name, value) ==
    [k \in DOMAIN obj \cup {name} |-> IF k = name THEN value ELSE obj[k]]

\* end[i] - start[i] on values that may not be arrays
Sub(e, s, i) ==
    IF e.kind = "instant" /\ s.kind = "instant" THEN Num(e.at[i] - s.at[i]) ELSE NaN

\* (diff[0] * 1e9 + diff[1]) / 1e6
Duration(d0, d1) ==
    IF d0.kind = "number" /\ d1.kind = "number"
    THEN Num(d0.ns * NanosPerSec + d1.ns) ELSE NaN

(***************************************************************************)
(* createExecutionTimer                                                    *)
(***************************************************************************)
\* mark(name): marks[name] = process.hrtime()
mark(ms, now, name) == Put(ms, name, hrtime(now))

Thrown(msg) == [kind |-> "throw", error |-> msg, value |-> NaN]
Returned(v) == [kind |-> "return", error |-> "", value |-> v]

\* measure with the nanosecond parts subtracted the wrong way round.
measureSwappedNanos(ms, meas, now, name, startMark, endMark) ==
    IF ~Truthy(Get(ms, startMark))
    THEN [marks |-> ms, measures |-> meas, out |-> Thrown("Start mark doesn't exist")]
    ELSE LET given == endMark.given /\ endMark.name # ""
             start == Get(ms, startMark)
             end   == IF given THEN Get(ms, endMark.name)
                      ELSE [kind |-> "instant", at |-> hrtime(now)]
         IN IF given /\ ~Truthy(Get(ms, endMark.name))
            THEN [marks |-> ms, measures |-> meas,
                  out |-> Thrown("End mark doesn't exist")]
            ELSE LET duration == Duration(Sub(end, start, 1), Sub(start, end, 2))
                 IN [marks |-> ms, measures |-> Put(meas, name, duration),
                     out |-> Returned(duration)]

\* measure(name, startMark, endMark?): the marks and measures afterwards and
\* how the call ended.
measure(ms, meas, now, name, startMark, endMark) ==
    IF ~Truthy(Get(ms, startMark))
    THEN [marks |-> ms, measures |-> meas, out |-> Thrown("Start mark doesn't exist")]
    ELSE LET given == endMark.given /\ endMark.name # ""   \* endMark ? ... : ...
             start == Get(ms, startMark)
             end   == IF given THEN Get(ms, endMark.name)
                      ELSE [kind |-> "instant", at |-> hrtime(now)]
         IN IF given /\ ~Truthy(Get(ms, endMark.name))
            THEN [marks |-> ms, measures |-> meas,
                  out |-> Thrown("End mark doesn't exist")]
            ELSE LET duration == Duration(Sub(end, start, 1), Sub(end, start, 2))
                 IN [marks |-> ms, measures |-> Put(meas, name, duration),
                     out |-> Returned(duration)]

(***************************************************************************)
(* Values of the invocation layer.                                         *)
(***************************************************************************)
Undefined == "<undefined>"

\* The host's context object.  arnLast is the last colon-separated part of
\* invokedFunctionArn.
Context(requestId, arnLast) ==
    [present |-> TRUE, functionName |-> "fn", functionVersion |-> "$LATEST",
     awsRequestId |-> requestId, arnLast |-> arnLast, logStreamName |-> "stream"]

ValidContexts == {Context("req-1", "prod"), Context("req-2", "42")}

\* What a decorated method may receive as its second argument instead:
\* nothing, or an object whose functionName is not a string.
AbsentContext ==
    [present |-> FALSE, functionName |-> Undefined, functionVersion |-> Undefined,
     awsRequestId |-> Undefined, arnLast |-> Undefined, logStreamName |-> Undefined]
NamelessContext ==
    [present |-> TRUE, functionName |-> Undefined, functionVersion |-> Undefined,
     awsRequestId |-> "req-3", arnLast |-> Undefined, logStreamName |-> Undefined]

InvalidContexts == {AbsentContext, NamelessContext}

\* The context handler code passes on when it calls the library itself.
DirectContexts == {Context("req-1", "prod")}

\* context && typeof context.functionName === "string"
IsValidContext(context) == context.present /\ context.functionName # Undefined

\* Events: the raw event can be rendered as JSON, or is circular.
Events == {"plain", "circular"}

\* Thrown values: an Error, or a value that is not an Error.
ErrorValue(name, message) == [isError |-> TRUE, name |-> name, message |-> message]
NonError(message) == [isError |-> FALSE, name |-> "", message |-> message]
NoError == [isError |-> FALSE, name |-> "", message |-> Undefined]
CircularTypeError ==
    ErrorValue("TypeError", "Converting circular structure to JSON")

\* error instanceof Error ? error : new Error(String(error))
AsError(error) ==
    IF error.isError THEN error ELSE ErrorValue("Error", error.message)

\* Results: { statusCode, body: JSON.stringify({ message, requestId }) }
Response(statusCode, message, requestId) ==
    [statusCode |-> statusCode, body |-> [message |-> message, requestId |-> requestId]]
NoValue == Response(0, Undefined, Undefined)

ErrorResponse(requestId) == Response(500, "Internal server error", requestId)

\* How a call ended.
Return(value) == [kind |-> "return", value |-> value, error |-> NoError]
Throw(error) == [kind |-> "throw", value |-> NoValue, error |-> error]
NoOutcome == [kind |-> "none", value |-> NoValue, error |-> NoError]

\* What the innermost handler does: how long it takes and how it ends.
HandlerTime == 1500000
Behaviour(out) == [takes |-> HandlerTime, out |-> out]
Behaviours ==
    {Behaviour(Return(Response(200, "Success", Undefined))),
     Behaviour(Throw(ErrorValue("Error", "boom"))),
     Behaviour(Throw(NonError("oops")))}

(***************************************************************************)
(* LogOptions: records with optional fields, as functions on the fields    *)
(* that are set.                                                           *)
(***************************************************************************)
NoOptions == [k \in {} |-> TRUE]

\* { ...a, ...b }
Merge(a, b) ==
    [k \in DOMAIN a \cup DOMAIN b |-> IF k \in DOMAIN b THEN b[k] ELSE a[k]]

\* options?.field, as a condition
IsSet(options, field) == field \in DOMAIN options /\ options[field]

DefaultLogOptions ==
    [verbose |-> FALSE, includeLambdaInfo |-> TRUE, includeTimestamp |-> TRUE,
     includeData |-> TRUE]

(***************************************************************************)
(* info.ts.  The process state the code reads and writes is threaded       *)
(* through the operators as a record st:                                   *)
(*   first  isFirstInvocation        now   the clock                       *)
(*   dev    NODE_ENV is development  env   AWS_LAMBDA_LOG_STREAM_NAME      *)
(*   reads, readers  the history of cold-start reads                       *)
(***************************************************************************)
NumericParts == {"42"}

\* getAliasFromContext: the last ARN part when it is not a number
getAliasFromContext(context) ==
    IF context.arnLast \notin {Undefined, ""} /\ context.arnLast \notin NumericParts
    THEN context.arnLast ELSE Undefined

NoInfo ==
    [functionName |-> Undefined, functionVersion |-> Undefined,
     awsRequestId |-> Undefined, alias |-> Undefined, coldStart |-> FALSE,
     full |-> FALSE, memoryUsageInMB |-> Undefined]

\* The flag is read into coldStart and cleared.
ReadFlag(st, by) ==
    [st EXCEPT !.first = FALSE,
               !.reads = Append(@, st.first),
               !.readers = @ \cup {by}]

\* A read that leaves the flag as it was.
getMinimalLambdaInfoKeepsFlag(context, st) ==
    [st |-> [st EXCEPT !.reads = Append(@, st.first),
                       !.readers = @ \cup {"getMinimalLambdaInfo"}],
     info |-> [functionName |-> context.functionName,
               functionVersion |-> context.functionVersion,
               awsRequestId |-> context.awsRequestId,
               alias |-> getAliasFromContext(context),
               coldStart |-> st.first,
               full |-> FALSE, memoryUsageInMB |-> Undefined]]

getMinimalLambdaInfo(context, st) ==
    [st |-> ReadFlag(st, "getMinimalLambdaInfo"),
     info |-> [functionName |-> context.functionName,
               functionVersion |-> context.functionVersion,
               awsRequestId |-> context.awsRequestId,
               alias |-> getAliasFromContext(context),
               coldStart |-> st.first,
               full |-> FALSE, memoryUsageInMB |-> Undefined]]

getLambdaInfo(context, st) ==
    [st |-> ReadFlag(st, "getLambdaInfo"),
     info |-> [functionName |-> context.functionName,
               functionVersion |-> context.functionVersion,
               awsRequestId |-> context.awsRequestId,
               alias |-> getAliasFromContext(context),
               coldStart |-> st.first,
               full |-> TRUE, memoryUsageInMB |-> "rss"]]

(***************************************************************************)
(* logging.ts                                                              *)
(***************************************************************************)
\* The data payload of a log call.  keys are the properties JSON.stringify
\* renders (an undefined property is left out).
NoData ==
    [kind |-> "none", keys |-> {}, isColdStart |-> FALSE, event |-> Undefined,
     executionTime |-> NaN, memoryUsage |-> Undefined, info |-> NoInfo]
StartedData(isColdStart, event) ==
    [NoData EXCEPT !.kind = "started", !.keys = {"isColdStart", "event"},
                   !.isColdStart = isColdStart, !.event = event]
CompletedData(executionTime, memoryUsage) ==
    [NoData EXCEPT !.kind = "completed", !.keys = {"executionTime", "memoryUsage"},
                   !.executionTime = executionTime, !.memoryUsage = memoryUsage]
ExecutionTimeData(executionTime) ==
    [NoData EXCEPT !.kind = "executionTime", !.keys = {"executionTime"},
                   !.executionTime = executionTime]
InfoData(info) ==
    [NoData EXCEPT !.kind = "lambdaInfo", !.keys = {"lambdaInfo"}, !.info = info]

\* JSON.stringify(data, null, 2): throws on a circular structure, leaves
\* out undefined properties.
Rendering(ok, text, error) == [ok |-> ok, text |-> text, error |-> error]
stringify(data) ==
    IF "event" \in data.keys /\ data.event = "circular"
    THEN Rendering(FALSE, NoData, CircularTypeError)
    ELSE IF "event" \in data.keys /\ data.event = Undefined
    THEN Rendering(TRUE, [data EXCEPT !.keys = @ \ {"event"}], NoError)
    ELSE Rendering(TRUE, data, NoError)

\* The metadata segment: Function, Alias (if any), Version, RequestID, ColdStart
NoMeta ==
    [shown |-> FALSE, functionName |-> Undefined, alias |-> Undefined,
     functionVersion |-> Undefined, awsRequestId |-> Undefined, coldStart |-> FALSE]
Meta(lambdaInfo) ==
    [shown |-> TRUE, functionName |-> lambdaInfo.functionName,
     alias |-> lambdaInfo.alias, functionVersion |-> lambdaInfo.functionVersion,
     awsRequestId |-> lambdaInfo.awsRequestId, coldStart |-> lambdaInfo.coldStart]

\* One emitted line: the sink and the segments joined by " | ".
NoLine ==
    [sink |-> "none", message |-> "", meta |-> NoMeta, data |-> NoData,
     error |-> NoError]

\* createContextLogger: the logger (its options and the lambdaInfo it read)
\* and the process state afterwards.
createContextLogger(context, defaultOptions, st) ==
    LET options == Merge(DefaultLogOptions, defaultOptions)
        r == IF options.verbose THEN getLambdaInfo(context, st)
             ELSE getMinimalLambdaInfo(context, st)
        logStreamName == [alias |-> r.info.alias, stream |-> context.logStreamName]
    IN [st |-> [r.st EXCEPT !.env = logStreamName,
                            !.readers = @ \cup {"createContextLogger"}],
        logger |-> [options |-> options, lambdaInfo |-> r.info]]

\* formatLog(level, message, data, error): the line, or the error thrown
formatLog(logger, sink, message, data, error) ==
    LET meta == IF logger.options.includeLambdaInfo
                THEN Meta(logger.lambdaInfo) ELSE NoMeta
        withData == data # NoData /\ logger.options.includeData
        json == IF withData THEN stringify(data) ELSE Rendering(TRUE, NoData, NoError)
    IN [ok |-> json.ok,
        line |-> [sink |-> sink, message |-> message, meta |-> meta,
                  data |-> json.text, error |-> error],
        error |-> json.error]

\* A log call that passes the payload on whatever the call-time options say.
EmitIgnoringCallOptions(logger, sink, message, error, data, callOptions) ==
    formatLog(logger, sink, message, data, error)

\* logger.info / warn / debug (message, data, callOptions) and
\* logger.error (message, error, data, callOptions)
Emit(logger, sink, message, error, data, callOptions) ==
    LET opts == Merge(logger.options, callOptions)
    IN formatLog(logger, sink, message,
                 IF opts.includeData THEN data ELSE NoData, error)

(***************************************************************************)
(* A call of a wrapped handler is run to its end; what it did is a trace   *)
(* of events: the lines logged, the call of the innermost handler, and     *)
(* how each layer's call ended.  depth 1 is the outermost layer.           *)
(***************************************************************************)
LogEvent(who, depth, line) ==
    [ev |-> "log", who |-> who, depth |-> depth, line |-> line, out |-> NoOutcome]
CallEvent(depth) ==
    [ev |-> "call", who |-> "handler", depth |-> depth, line |-> NoLine,
     out |-> NoOutcome]
ExitEvent(who, depth, out) ==
    [ev |-> "exit", who |-> who, depth |-> depth, line |-> NoLine, out |-> out]

Result(st, trace, out) == [st |-> st, trace |-> trace, out |-> out]

\* The layer's call ends with `out`.
Finish(who, depth, st, trace, out) ==
    Result(st, Append(trace, ExitEvent(who, depth, out)), out)

\* The innermost handler: takes its time, then returns or throws.
handlerBody(beh, st, depth) ==
    Result([st EXCEPT !.now = @ + beh.takes],
           <<CallEvent(depth), ExitEvent("handler", depth, beh.out)>>, beh.out)

(***************************************************************************)
(* performance.ts: measureExecutionTime                                    *)
(***************************************************************************)
\* fn is () => handler(event, context): the call of the wrapped handler.
RECURSIVE Run(_, _, _, _, _)
measureExecutionTime(handler, event, context, st, depth) ==
    LET startTime == hrtime(st.now)
        r == Run(handler, event, context, st, depth + 1)
        diff == hrtime(r.st.now - Nanos(startTime))
    IN [st |-> r.st, trace |-> r.trace, out |-> r.out,
        executionTime |-> Duration(Num(diff[1]), Num(diff[2]))]

(***************************************************************************)
(* middleware.ts                                                           *)
(***************************************************************************)
\* withLogging, the catch block, re-throwing new Error(String(error)).
withLoggingCatchWrapped(logger, m, pre, depth) ==
    LET failed == Emit(logger, "error", "Lambda invocation failed",
                       AsError(m.out.error), NoData, NoOptions)
    IN Finish("withLogging", depth, m.st,
              pre \o m.trace \o <<LogEvent("withLogging", depth, failed.line)>>,
              Throw(AsError(m.out.error)))

\* withLogging, the catch block: log the error, throw it again.
withLoggingCatch(logger, m, pre, depth) ==
    LET failed == Emit(logger, "error", "Lambda invocation failed",
                       AsError(m.out.error), NoData, NoOptions)
    IN Finish("withLogging", depth, m.st,
              pre \o m.trace \o <<LogEvent("withLogging", depth, failed.line)>>,
              Throw(m.out.error))

\* withLogging, after the handler returned: log the completion, return.
withLoggingCompleted(logger, lambdaInfo, m, pre, depth) ==
    LET completed == Emit(logger, "info", "Lambda invocation completed", NoError,
                          CompletedData(m.executionTime, lambdaInfo.memoryUsageInMB),
                          NoOptions)
    IN Finish("withLogging", depth, m.st,
              pre \o m.trace \o <<LogEvent("withLogging", depth, completed.line)>>,
              m.out)

\* The data of the "Lambda invocation started" record.
startedData(lambdaInfo, event, st) ==
    StartedData(lambdaInfo.coldStart, IF st.dev THEN event ELSE Undefined)

withLogging(handler, event, context, st, depth) ==
    LET c == createContextLogger(context, NoOptions, st)
        i == getLambdaInfo(context, c.st)
        started == Emit(c.logger, "info", "Lambda invocation started", NoError,
                        startedData(i.info, event, i.st), NoOptions)
        pre == <<LogEvent("withLogging", depth, started.line)>>
    IN IF ~started.ok
       THEN Finish("withLogging", depth, i.st, <<>>, Throw(started.error))
       ELSE LET m == measureExecutionTime(handler, event, context, i.st, depth)
            IN IF m.out.kind = "return"
               THEN withLoggingCompleted(c.logger, i.info, m, pre, depth)
               ELSE withLoggingCatch(c.logger, m, pre, depth)

\* withErrorHandling, the catch block, without the log call.
withErrorHandlingCatchSilent(context, r, depth) ==
    Finish("withErrorHandling", depth, r.st, r.trace,
           Return(ErrorResponse(context.awsRequestId)))

\* withErrorHandling, the catch block, throwing the error again.
withErrorHandlingCatchRethrows(context, r, depth) ==
    LET c == createContextLogger(context, NoOptions, r.st)
        line == Emit(c.logger, "error", "Unhandled error in Lambda",
                     AsError(r.out.error), NoData, NoOptions)
    IN Finish("withErrorHandling", depth, c.st,
              Append(r.trace, LogEvent("withErrorHandling", depth, line.line)),
              Throw(r.out.error))

\* withErrorHandling, the catch block: log the error, return the response.
withErrorHandlingCatch(context, r, depth) ==
    LET c == createContextLogger(context, NoOptions, r.st)
        line == Emit(c.logger, "error", "Unhandled error in Lambda",
                     AsError(r.out.error), NoData, NoOptions)
    IN Finish("withErrorHandling", depth, c.st,
              Append(r.trace, LogEvent("withErrorHandling", depth, line.line)),
              Return(ErrorResponse(context.awsRequestId)))

withErrorHandling(handler, event, context, st, depth) ==
    LET r == Run(handler, event, context, st, depth + 1)
    IN IF r.out.kind = "return"
       THEN Finish("withErrorHandling", depth, r.st, r.trace, r.out)
       ELSE withErrorHandlingCatch(context, r, depth)

\* A handler as a value: the innermost behaviour and the layers wrapped
\* around it, outermost first.
Layer(name, options) == [name |-> name, options |-> options]
BaseHandler(beh) == [layers |-> <<>>, beh |-> beh]

\* middleware(acc), decorator(target, key, descriptor)
Wrap(layer, h) == [h EXCEPT !.layers = <<layer>> \o @]

\* middlewares.reduce((acc, middleware) => middleware(acc), handler)
RECURSIVE Reduce(_, _, _)
Reduce(seq, i, acc) ==
    IF i > Len(seq) THEN acc ELSE Reduce(seq, i + 1, Wrap(seq[i], acc))

\* middlewares.reduceRight((acc, middleware) => middleware(acc), handler)
RECURSIVE ReduceRight(_, _, _)
ReduceRight(seq, i, acc) ==
    IF i = 0 THEN acc ELSE ReduceRight(seq, i - 1, Wrap(seq[i], acc))

\* compose folding from the left.
composeLeftToRight(middlewares, handler) == Reduce(middlewares, 1, handler)

\* compose(...middlewares)(handler)
compose(middlewares, handler) ==
    ReduceRight(middlewares, Len(middlewares), handler)

\* A(B(...(handler))) written out by hand; also @A @B ... on a method.
RECURSIVE Nested(_, _)
Nested(layers, handler) ==
    IF layers = <<>> THEN handler
    ELSE Wrap(Head(layers), Nested(Tail(layers), handler))

(***************************************************************************)
(* decorators.ts                                                           *)
(***************************************************************************)
logLambdaInfo(logOptions, originalMethod, event, context, st, depth) ==
    IF ~IsValidContext(context)
    THEN LET r == Run(originalMethod, event, context, st, depth + 1)
         IN Finish("logLambdaInfo", depth, r.st, r.trace, r.out)
    ELSE LET c == createContextLogger(context, logOptions, st)
             i == IF IsSet(logOptions, "verbose") THEN getLambdaInfo(context, c.st)
                  ELSE getMinimalLambdaInfo(context, c.st)
             line == Emit(c.logger, "info", "Lambda execution details", NoError,
                          InfoData(i.info), [includeLambdaInfo |-> FALSE])
             r == Run(originalMethod, event, context, i.st, depth + 1)
         IN Finish("logLambdaInfo", depth, r.st,
                   <<LogEvent("logLambdaInfo", depth, line.line)>> \o r.trace, r.out)

measurePerformance(logOptions, originalMethod, event, context, st, depth) ==
    IF ~IsValidContext(context)
    THEN LET r == Run(originalMethod, event, context, st, depth + 1)
         IN Finish("measurePerformance", depth, r.st, r.trace, r.out)
    ELSE LET c == createContextLogger(context, logOptions, st)
             m == measureExecutionTime(originalMethod, event, context, c.st, depth)
             line == Emit(c.logger, "info", "Method execution completed", NoError,
                          ExecutionTimeData(m.executionTime), [includeData |-> TRUE])
         IN IF m.out.kind = "return"
            THEN Finish("measurePerformance", depth, m.st,
                        Append(m.trace, LogEvent("measurePerformance", depth, line.line)),
                        m.out)
            ELSE Finish("measurePerformance", depth, m.st, m.trace, m.out)

\* context?.awsRequestId || "unknown"
requestIdOrUnknown(context) ==
    IF context.present /\ context.awsRequestId \notin {Undefined, ""}
    THEN context.awsRequestId ELSE "unknown"

\* handleErrors, the catch block, without its test of the context.
handleErrorsCatchAlwaysLogs(logOptions, context, r, depth) ==
    LET errorLogOptions ==
            Merge(logOptions,
                  [includeLambdaInfo |->
                      ~("includeLambdaInfo" \in DOMAIN logOptions
                        /\ logOptions["includeLambdaInfo"] = FALSE)])
        c == createContextLogger(context, errorLogOptions, r.st)
        line == Emit(c.logger, "error", "Error in method", AsError(r.out.error),
                     NoData, [verbose |-> TRUE])
    IN Finish("handleErrors", depth, c.st,
              Append(r.trace, LogEvent("handleErrors", depth, line.line)),
              Return(ErrorResponse(requestIdOrUnknown(context))))

\* handleErrors, the catch block: log when the context is valid, return
\* the response.
handleErrorsCatch(logOptions, context, r, depth) ==
    LET errorLogOptions ==
            Merge(logOptions,
                  [includeLambdaInfo |->
                      ~("includeLambdaInfo" \in DOMAIN logOptions
                        /\ logOptions["includeLambdaInfo"] = FALSE)])
        c == createContextLogger(context, errorLogOptions, r.st)
        line == Emit(c.logger, "error", "Error in method", AsError(r.out.error),
                     NoData, [verbose |-> TRUE])
    IN IF IsValidContext(context)
       THEN Finish("handleErrors", depth, c.st,
                   Append(r.trace, LogEvent("handleErrors", depth, line.line)),
                   Return(ErrorResponse(requestIdOrUnknown(context))))
       ELSE Finish("handleErrors", depth, r.st, r.trace,
                   Return(ErrorResponse(requestIdOrUnknown(context))))

handleErrors(logOptions, originalMethod, event, context, st, depth) ==
    LET r == Run(originalMethod, event, context, st, depth + 1)
    IN IF r.out.kind = "return"
       THEN Finish("handleErrors", depth, r.st, r.trace, r.out)
       ELSE handleErrorsCatch(logOptions, context, r, depth)

(***************************************************************************)
(* Calling a wrapped handler: each layer runs around the rest.             *)
(***************************************************************************)
Run(h, event, context, st, depth) ==
    IF h.layers = <<>> THEN handlerBody(h.beh, st, depth)
    ELSE LET layer == Head(h.layers)
             inner == [h EXCEPT !.layers = Tail(@)]
         IN CASE layer.name = "withLogging" ->
                    withLogging(inner, event, context, st, depth)
              [] layer.name = "withErrorHandling" ->
                    withErrorHandling(inner, event, context, st, depth)
              [] layer.name = "logLambdaInfo" ->
                    logLambdaInfo(layer.options, inner, event, context, st, depth)
              [] layer.name = "measurePerformance" ->
                    measurePerformance(layer.options, inner, event, context, st, depth)
              [] layer.name = "handleErrors" ->
                    handleErrors(layer.options, inner, event, context, st, depth)

(***************************************************************************)
(* decorators.ts at class-definition time: a decorator replaces the        *)
(* method in the descriptor and copies the metadata of (target,            *)
(* propertyKey) back.  reflect-metadata keeps metadata per key: the        *)
(* target's own entries and those inherited along its prototype chain.     *)
(***************************************************************************)
NoMap == [k \in {} |-> ""]
MetaKeys == {"route", "role"}
MetaValues == {"POST"}

\* Reflect.getMetadataKeys(target, propertyKey)
getMetadataKeys(meta) == DOMAIN meta.own \cup DOMAIN meta.inherited

\* Reflect.getMetadata(key, target, propertyKey)
getMetadata(meta, key) ==
    IF key \in DOMAIN meta.own THEN meta.own[key]
    ELSE IF key \in DOMAIN meta.inherited THEN meta.inherited[key]
    ELSE Undefined

\* Reflect.defineMetadata(key, value, target, propertyKey)
defineMetadata(meta, key, value) ==
    [meta EXCEPT !.own = [k \in DOMAIN meta.own \cup {key} |->
                             IF k = key THEN value ELSE meta.own[k]]]

\* A restore that defines every key without its value.
RECURSIVE restoreMetadataWithoutValues(_, _)
restoreMetadataWithoutValues(metadataKeys, meta) ==
    IF metadataKeys = {} THEN meta
    ELSE LET key == CHOOSE k \in metadataKeys : TRUE
         IN restoreMetadataWithoutValues(metadataKeys \ {key},
                                         defineMetadata(meta, key, Undefined))

\* metadataKeys.forEach((key) => defineMetadata(key, getMetadata(key, ...), ...))
RECURSIVE restoreMetadata(_, _)
restoreMetadata(metadataKeys, meta) ==
    IF metadataKeys = {} THEN meta
    ELSE LET key == CHOOSE k \in metadataKeys : TRUE
             value == getMetadata(meta, key)
         IN restoreMetadata(metadataKeys \ {key}, defineMetadata(meta, key, value))

\* A PropertyDescriptor: value is the method.
Descriptor(method) == [value |-> method]

\* A method decorator of another library, which annotates the method and
\* returns nothing.
Annotator == Layer("annotate", [key |-> "tag", value |-> "v1"])

Wrapping == {"logLambdaInfo", "measurePerformance", "handleErrors"}

MethodDecorators ==
    {Layer(name, NoOptions) : name \in Wrapping} \cup {Annotator}

\* decorator(target, propertyKey, descriptor): what it returns (if it
\* returns a descriptor), the descriptor and the metadata afterwards.
decorate(decorator, desc, meta) ==
    IF decorator.name \in Wrapping
    THEN LET originalMethod == desc.value
             metadataKeys == getMetadataKeys(meta)
             replaced == [desc EXCEPT !.value = Wrap(decorator, originalMethod)]
         IN [returned |-> TRUE, result |-> replaced, descriptor |-> replaced,
             metadata |-> restoreMetadata(metadataKeys, meta)]
    ELSE [returned |-> FALSE, result |-> desc, descriptor |-> desc,
          metadata |-> defineMetadata(meta, decorator.options.key,
                                      decorator.options.value)]

\* One fold step: const result = decorator(target, propertyKey, acc);
\* return result || acc
foldStep(acc, decorator) ==
    LET r == decorate(decorator, acc.descriptor, acc.metadata)
    IN [descriptor |-> IF r.returned THEN r.result ELSE acc.descriptor,
        metadata |-> r.metadata]

RECURSIVE foldLeft(_, _, _)
foldLeft(decorators, i, acc) ==
    IF i > Len(decorators) THEN acc
    ELSE foldLeft(decorators, i + 1, foldStep(acc, decorators[i]))

RECURSIVE foldRight(_, _, _)
foldRight(decorators, i, acc) ==
    IF i = 0 THEN acc
    ELSE foldRight(decorators, i - 1, foldStep(acc, decorators[i]))

\* composeDecorators folding from the right.
composeDecoratorsRightToLeft(decorators, desc, meta) ==
    foldRight(decorators, Len(decorators), [descriptor |-> desc, metadata |-> meta])

\* composeDecorators(...decorators)(target, propertyKey, descriptor)
composeDecorators(decorators, desc, meta) ==
    foldLeft(decorators, 1, [descriptor |-> desc, metadata |-> meta])

\* The wrapping decorators among a list, in the order listed.
IsWrapping(decorator) == decorator.name \in Wrapping
Wrappers(decorators) == SelectSeq(decorators, IsWrapping)

\* The method as the class author wrote it.
OriginalDescriptor == Descriptor(BaseHandler(Behaviour(NoOutcome)))
NoMetadata == [own |-> NoMap, inherited |-> NoMap]
NoStep ==
    [op |-> "none", decorators |-> <<>>, before |-> OriginalDescriptor,
     metadataBefore |-> NoMetadata]

\* No class has been defined.
ClassIdle ==
    /\ descriptor = OriginalDescriptor
    /\ metadata = NoMetadata
    /\ annotated = NoMap
    /\ applied = <<>>
    /\ step = NoStep

(***************************************************************************)
(* The timer specification.                                                *)
(***************************************************************************)
NoCall == [op |-> "none", name |-> "", startMark |-> "", endMark |-> NoEnd,
           out |-> Returned(NaN), before |-> <<>>]

InitTimer ==
    /\ clock = 0
    /\ ticks = 0
    /\ marks = <<>>
    /\ measures = <<>>
    /\ ret = NoCall
    /\ lastMark = <<>>
    /\ calls = 0
    /\ isFirstInvocation = TRUE
    /\ nodeEnvDevelopment = FALSE
    /\ logStreamEnv = [alias |-> Undefined, stream |-> Undefined]
    /\ reads = <<>>
    /\ readers = {}
    /\ deployed = [surface |-> "none", layers |-> <<>>]
    /\ last = [kind |-> "none"]
    /\ served = 0
    /\ ClassIdle

\* Time passes between two calls; the clock never goes back.
Tick ==
    \E d \in ClockSteps :
        /\ ticks < MaxTicks
        /\ d <= MaxClock - clock
        /\ clock' = clock + d
        /\ ticks' = ticks + 1
        /\ UNCHANGED <<marks, measures, ret, lastMark, calls>>
        /\ UNCHANGED processVars
        /\ UNCHANGED classVars

Mark ==
    \E name \in MarkNames :
        /\ calls < MaxCalls
        /\ marks' = mark(marks, clock, name)
        /\ lastMark' = Put(lastMark, name, clock)
        /\ ret' = [NoCall EXCEPT !.op = "mark", !.name = name, !.before = measures]
        /\ calls' = calls + 1
        /\ UNCHANGED <<clock, ticks, measures>>
        /\ UNCHANGED processVars
        /\ UNCHANGED classVars

Measure ==
    \E name \in MeasureNames, startMark \in MarkNames, endMark \in EndArgs :
        LET r == measure(marks, measures, clock, name, startMark, endMark)
        IN /\ calls < MaxCalls
           /\ marks' = r.marks
           /\ measures' = r.measures
           /\ ret' = [NoCall EXCEPT !.op = "measure", !.name = name,
                                    !.startMark = startMark, !.endMark = endMark,
                                    !.out = r.out, !.before = measures]
           /\ calls' = calls + 1
           /\ UNCHANGED <<clock, ticks, lastMark>>
           /\ UNCHANGED processVars
           /\ UNCHANGED classVars

NextTimer == Tick \/ Mark \/ Measure

SpecTimer == InitTimer /\ [][NextTimer]_vars

(***************************************************************************)
(* The process specification: a module exports one wrapped handler, built  *)
(* when the module is loaded, and the process then serves calls one at a   *)
(* time.                                                                   *)
(***************************************************************************)
Middlewares == {Layer("withLogging", NoOptions), Layer("withErrorHandling", NoOptions)}

OptionChoices == {NoOptions, [verbose |-> TRUE, includeLambdaInfo |-> FALSE]}

Decorators ==
    {Layer("logLambdaInfo", options) : options \in OptionChoices}
    \cup {Layer("measurePerformance", NoOptions), Layer("handleErrors", NoOptions)}

\* The sequences over S of length at most n.
SeqsUpTo(S, n) == UNION {[1..k -> S] : k \in 0..n}

\* export const handler = compose(...middlewares)(baseHandler): the handler
\* is the function of the innermost behaviour that compose returns.
Composed(middlewares) ==
    [surface |-> "middleware", layers |-> middlewares]

\* class { @D1 @D2 ... async handle(event, context) }
Decorated(decorators) ==
    [surface |-> "decorated", layers |-> decorators]

Exported(d, beh) ==
    IF d.surface = "middleware" THEN compose(d.layers, BaseHandler(beh))
    ELSE Nested(d.layers, BaseHandler(beh))

\* The process state the code reads and writes.
State ==
    [first |-> isFirstInvocation, now |-> clock, dev |-> nodeEnvDevelopment,
     env |-> logStreamEnv, reads |-> reads, readers |-> readers]

Commit(st) ==
    /\ isFirstInvocation' = st.first
    /\ clock' = st.now
    /\ logStreamEnv' = st.env
    /\ reads' = st.reads
    /\ readers' = st.readers
    /\ served' = served + 1
    /\ UNCHANGED <<nodeEnvDevelopment, deployed>>
    /\ UNCHANGED timerVars
    /\ UNCHANGED classVars

NoEnv == [alias |-> Undefined, stream |-> Undefined]
NoLogger == [options |-> DefaultLogOptions, lambdaInfo |-> NoInfo]
NoState ==
    [first |-> FALSE, now |-> 0, dev |-> FALSE, env |-> NoEnv, reads |-> <<>>,
     readers |-> {}]

\* What handler code passes to a log call of a logger it created.
LoggerOptions == OptionChoices \cup {[includeData |-> FALSE]}
CallOptions ==
    {NoOptions, [includeData |-> FALSE], [includeData |-> TRUE],
     [includeLambdaInfo |-> FALSE], [includeLambdaInfo |-> TRUE]}
Sinks == {"info", "warn", "error", "debug"}
CircularData ==
    [NoData EXCEPT !.kind = "circular", !.keys = {"event"}, !.event = "circular"]
Payloads == {NoData, ExecutionTimeData(Num(HandlerTime)), CircularData}

NothingServed ==
    [kind |-> "none", beh |-> Behaviour(NoOutcome), event |-> Undefined,
     context |-> AbsentContext, before |-> NoState, trace |-> <<>>,
     out |-> NoOutcome, info |-> NoInfo, logger |-> NoLogger,
     sink |-> "none", data |-> NoData, callOptions |-> NoOptions,
     line |-> NoLine, thrown |-> NoError]

TimerIdle ==
    /\ ticks = 0
    /\ marks = <<>>
    /\ measures = <<>>
    /\ ret = NoCall
    /\ lastMark = <<>>
    /\ calls = 0

ProcessIdle ==
    /\ isFirstInvocation = TRUE
    /\ logStreamEnv = NoEnv
    /\ reads = <<>>
    /\ readers = {}
    /\ last = NothingServed
    /\ served = 0

Init ==
    /\ clock = 0
    /\ nodeEnvDevelopment \in BOOLEAN
    /\ deployed \in {Composed(m) : m \in SeqsUpTo(Middlewares, MaxChain)}
                    \cup {Decorated(d) : d \in SeqsUpTo(Decorators, MaxChain)}
    /\ ProcessIdle
    /\ TimerIdle
    /\ ClassIdle

\* The host invokes the exported middleware handler.
InvokeMiddleware ==
    /\ served < MaxServed
    /\ deployed.surface = "middleware"
    /\ \E beh \in Behaviours, event \in Events, context \in ValidContexts :
        \E r \in {Run(Exported(deployed, beh), event, context, State, 1)} :
           /\ last' = [NothingServed EXCEPT
                          !.kind = "invoke", !.beh = beh, !.event = event,
                          !.context = context, !.before = State,
                          !.trace = r.trace, !.out = r.out]
           /\ Commit(r.st)

\* The decorated method is called; its second argument may be no context.
InvokeDecorated ==
    /\ served < MaxServed
    /\ deployed.surface = "decorated"
    /\ \E beh \in Behaviours, context \in ValidContexts \cup InvalidContexts :
        \E r \in {Run(Exported(deployed, beh), "plain", context, State, 1)} :
           /\ last' = [NothingServed EXCEPT
                          !.kind = "invoke", !.beh = beh, !.event = "plain",
                          !.context = context, !.before = State,
                          !.trace = r.trace, !.out = r.out]
           /\ Commit(r.st)

\* Handler code calls getLambdaInfo itself.
GetLambdaInfo ==
    /\ served < MaxServed
    /\ \E context \in DirectContexts :
        \E r \in {getLambdaInfo(context, State)} :
           /\ last' = [NothingServed EXCEPT
                          !.kind = "getLambdaInfo", !.context = context,
                          !.before = State, !.info = r.info]
           /\ Commit(r.st)

\* Handler code calls getMinimalLambdaInfo itself.
GetMinimalLambdaInfo ==
    /\ served < MaxServed
    /\ \E context \in DirectContexts :
        \E r \in {getMinimalLambdaInfo(context, State)} :
           /\ last' = [NothingServed EXCEPT
                          !.kind = "getMinimalLambdaInfo", !.context = context,
                          !.before = State, !.info = r.info]
           /\ Commit(r.st)

\* Handler code creates a logger itself.
CreateContextLogger ==
    /\ served < MaxServed
    /\ \E context \in DirectContexts, defaultOptions \in LoggerOptions :
        \E r \in {createContextLogger(context, defaultOptions, State)} :
           /\ last' = [NothingServed EXCEPT
                          !.kind = "createContextLogger", !.context = context,
                          !.before = State, !.info = r.logger.lambdaInfo,
                          !.logger = r.logger]
           /\ Commit(r.st)

\* Handler code logs through the logger it created: logger.info, warn,
\* error or debug; only logger.error takes an error.
Log ==
    /\ served < MaxServed
    /\ last.kind \in {"createContextLogger", "log"}
    /\ \E sink \in Sinks, data \in Payloads, callOptions \in CallOptions :
        \E r \in {Emit(last.logger, sink, "message",
                       IF sink = "error" THEN ErrorValue("Error", "boom") ELSE NoError,
                       data, callOptions)} :
           /\ last' = [NothingServed EXCEPT
                          !.kind = "log", !.context = last.context,
                          !.before = State, !.info = last.info,
                          !.logger = last.logger, !.sink = sink, !.data = data,
                          !.callOptions = callOptions,
                          !.line = IF r.ok THEN r.line ELSE NoLine,
                          !.thrown = r.error]
           /\ Commit(State)

Next ==
    \/ InvokeMiddleware
    \/ InvokeDecorated
    \/ GetLambdaInfo
    \/ GetMinimalLambdaInfo
    \/ CreateContextLogger

Spec == Init /\ [][Next]_vars

(***************************************************************************)
(* The logger specification: handler code creates loggers and logs lines.  *)
(***************************************************************************)
InitLogger ==
    /\ clock = 0
    /\ nodeEnvDevelopment = FALSE
    /\ deployed = [surface |-> "none", layers |-> <<>>]
    /\ ProcessIdle
    /\ TimerIdle
    /\ ClassIdle

NextLogger == CreateContextLogger \/ Log

SpecLogger == InitLogger /\ [][NextLogger]_vars

(***************************************************************************)
(* The decoration specification: while the class is defined, its author    *)
(* annotates one method and decorators are applied to it, one by one or    *)
(* through composeDecorators; afterwards the method is called.             *)
(***************************************************************************)
InitDecorate ==
    /\ clock = 0
    /\ nodeEnvDevelopment = FALSE
    /\ deployed = [surface |-> "none", layers |-> <<>>]
    /\ ProcessIdle
    /\ TimerIdle
    /\ descriptor = OriginalDescriptor
    /\ metadata \in {[own |-> NoMap, inherited |-> inherited] :
                        inherited \in {NoMap, [k \in {"route"} |-> "GET"]}}
    /\ annotated = metadata.inherited
    /\ applied = <<>>
    /\ step = NoStep

\* The class author attaches an annotation to the method, before it is
\* decorated.
Annotate ==
    /\ served = 0
    /\ step.op \in {"none", "annotate"}
    /\ \E key \in MetaKeys \ DOMAIN metadata.own, value \in MetaValues :
        /\ metadata' = defineMetadata(metadata, key, value)
        /\ annotated' = [k \in DOMAIN annotated \cup {key} |->
                            IF k = key THEN value ELSE annotated[k]]
        /\ step' = [NoStep EXCEPT !.op = "annotate"]
        /\ UNCHANGED <<descriptor, applied>>
        /\ UNCHANGED <<clock, processVars, timerVars>>

\* @decorator on the method: descriptor = decorator(...) || descriptor
Decorate ==
    /\ served = 0
    /\ \E decorator \in MethodDecorators :
        /\ Len(applied) + Len(Wrappers(<<decorator>>)) <= MaxStack
        /\ \E r \in {foldStep([descriptor |-> descriptor, metadata |-> metadata],
                              decorator)} :
            /\ descriptor' = r.descriptor
            /\ metadata' = r.metadata
        /\ applied' = applied \o Wrappers(<<decorator>>)
        /\ step' = [NoStep EXCEPT !.op = "decorate", !.decorators = <<decorator>>,
                                  !.before = descriptor,
                                  !.metadataBefore = metadata]
        /\ UNCHANGED annotated
        /\ UNCHANGED <<clock, processVars, timerVars>>

\* @composeDecorators(...decorators) on the method
ComposeDecorators ==
    /\ served = 0
    /\ \E decorators \in SeqsUpTo(MethodDecorators, MaxChain) :
        /\ Len(applied) + Len(Wrappers(decorators)) <= MaxStack
        /\ \E r \in {composeDecorators(decorators, descriptor, metadata)} :
            /\ descriptor' = r.descriptor
            /\ metadata' = r.metadata
        /\ applied' = applied \o Wrappers(decorators)
        /\ step' = [NoStep EXCEPT !.op = "compose", !.decorators = decorators,
                                  !.before = descriptor,
                                  !.metadataBefore = metadata]
        /\ UNCHANGED annotated
        /\ UNCHANGED <<clock, processVars, timerVars>>

\* The method is called: descriptor.value(event, context)
InvokeMethod ==
    /\ served < MaxMethodCalls
    /\ \E beh \in Behaviours, context \in DirectContexts :
        \E r \in {Run([descriptor.value EXCEPT !.beh = beh], "plain", context,
                      State, 1)} :
           /\ last' = [NothingServed EXCEPT
                          !.kind = "invoke", !.beh = beh, !.event = "plain",
                          !.context = context, !.before = State,
                          !.trace = r.trace, !.out = r.out]
           /\ Commit(r.st)

NextDecorate == Annotate \/ Decorate \/ ComposeDecorators \/ InvokeMethod

SpecDecorate == InitDecorate /\ [][NextDecorate]_vars

(***************************************************************************)
(* Claims about the invocation layer (checked under Spec).                 *)
(***************************************************************************)
Invoked == last.kind = "invoke"
Layers == deployed.layers
Depths == 1..Len(Layers)
IsMiddleware == deployed.surface = "middleware"
IsDecorated == deployed.surface = "decorated"

\* Positions of the trace of the last call.
Positions == DOMAIN last.trace
At(i) == last.trace[i]
ExitsAt(depth) == {i \in Positions : At(i).ev = "exit" /\ At(i).depth = depth}
LogsBy(depth) == {i \in Positions : At(i).ev = "log" /\ At(i).depth = depth}
AnyLogs == {i \in Positions : At(i).ev = "log"}
HandlerThrew == Invoked /\ \E i \in Positions : At(i).ev = "call"
                        /\ last.beh.out.kind = "throw"

ErrorHandlers == {"withErrorHandling", "handleErrors"}
Names(layers) == {layers[k].name : k \in DOMAIN layers}

\* C1: compose(A, B)(h)(e, c) produces the same events in the same order
\* and the same outcome as A(B(h))(e, c); the first middleware passed to
\* compose is the outermost wrapper.
C1_ComposeIsNesting ==
    (Invoked /\ IsMiddleware) =>
        LET byHand == Run(Nested(Layers, BaseHandler(last.beh)), last.event,
                          last.context, last.before, 1)
        IN /\ last.trace = byHand.trace
           /\ last.out = byHand.out
           /\ \A i \in Positions :
                At(i).who # "handler" => At(i).who = Layers[At(i).depth].name

\* compose(withLogging, withErrorHandling)(h) on a throwing h: withLogging
\* logs first and last, the error handler in between converts the error.
C1_Witness ==
    /\ Invoked /\ IsMiddleware
    /\ Layers = <<Layer("withLogging", NoOptions), Layer("withErrorHandling", NoOptions)>>
    /\ last.beh.out.kind = "throw"
    /\ Len(last.trace) = 7
    /\ At(1).ev = "log" /\ At(1).who = "withLogging"
    /\ At(2).ev = "call"
    /\ At(4).ev = "log" /\ At(4).who = "withErrorHandling"
    /\ At(6).ev = "log" /\ At(6).who = "withLogging"
    /\ last.out = Return(ErrorResponse(last.context.awsRequestId))

\* C2: over any sequence of cold-start reads through getLambdaInfo,
\* getMinimalLambdaInfo and createContextLogger, the first read yields
\* true, every later read yields false, and once read the flag stays false.
C2_ColdStartOnlyFirstRead ==
    /\ \A i \in DOMAIN reads : reads[i] = (i = 1)
    /\ reads # <<>> => ~isFirstInvocation
    /\ reads = <<>> => isFirstInvocation

C2_Witness ==
    /\ Len(reads) >= 4
    /\ readers = {"getLambdaInfo", "getMinimalLambdaInfo", "createContextLogger"}
    /\ served = 3
    /\ last.kind = "getMinimalLambdaInfo"
    /\ ~last.info.coldStart

\* C3: when the handler it wraps throws, an error-handling layer
\* (withErrorHandling, handleErrors with a valid context) returns the 500
\* response carrying context.awsRequestId and never re-throws; when the
\* handler returns, its result is returned unchanged.
C3_ErrorHandlingReturns500 ==
    (Invoked /\ IsValidContext(last.context)) =>
        \A k \in Depths : Layers[k].name \in ErrorHandlers =>
            \A i \in ExitsAt(k + 1) :
                \E j \in ExitsAt(k) :
                    /\ j > i
                    /\ At(j).out =
                         IF At(i).out.kind = "throw"
                         THEN Return(ErrorResponse(last.context.awsRequestId))
                         ELSE At(i).out

C3_Witness ==
    /\ Invoked /\ IsDecorated
    /\ Len(Layers) = 2 /\ Layers[2].name = "handleErrors"
    /\ Layers[1].name = "measurePerformance"
    /\ last.context = Context("req-2", "42")
    /\ last.beh.out = Throw(NonError("oops"))
    /\ last.out = Return(Response(500, "Internal server error", "req-2"))

\* C4: when the handler it wraps throws x, withLogging emits the "Lambda
\* invocation failed" error record and then throws the same x; it never
\* turns the failure into a return value.
C4_LoggingRethrowsSame ==
    Invoked =>
        \A k \in Depths : Layers[k].name = "withLogging" =>
            \A i \in ExitsAt(k + 1) : At(i).out.kind = "throw" =>
                \E l \in LogsBy(k), j \in ExitsAt(k) :
                    /\ i < l /\ l < j
                    /\ At(l).line.sink = "error"
                    /\ At(l).line.message = "Lambda invocation failed"
                    /\ At(l).line.error = AsError(At(i).out.error)
                    /\ At(j).out = Throw(At(i).out.error)

C4_Witness ==
    /\ Invoked /\ IsMiddleware
    /\ Layers = <<Layer("withLogging", NoOptions)>>
    /\ last.beh.out = Throw(NonError("oops"))
    /\ Len(last.trace) = 5
    /\ At(4).line.message = "Lambda invocation failed"
    /\ At(4).line.error = ErrorValue("Error", "oops")
    /\ last.out = Throw(NonError("oops"))

\* What the process state was before and is after the last call, history
\* apart from the clock.
Untouched ==
    /\ isFirstInvocation = last.before.first
    /\ reads = last.before.reads
    /\ logStreamEnv = last.before.env

\* C8 as stated: with no valid context as second argument every decorator
\* does no instrumentation and the decorated method behaves exactly as the
\* original: same result, same error thrown.
C8_InvalidContextBypasses ==
    (Invoked /\ IsDecorated /\ ~IsValidContext(last.context)) =>
        /\ AnyLogs = {}
        /\ Untouched
        /\ last.out = last.beh.out

\* C8 as amended: with no valid context nothing is logged and nothing is
\* read; logLambdaInfo and measurePerformance behave as the original, and
\* so does handleErrors when the original returns, but handleErrors turns an
\* error of the original into the 500 response with
\* context?.awsRequestId || "unknown".
C8_InvalidContextNoInstrumentation ==
    (Invoked /\ IsDecorated /\ ~IsValidContext(last.context)) =>
        /\ AnyLogs = {}
        /\ Untouched
        /\ last.out =
             IF last.beh.out.kind = "throw" /\ "handleErrors" \in Names(Layers)
             THEN Return(ErrorResponse(IF last.context = NamelessContext
                                       THEN "req-3" ELSE "unknown"))
             ELSE last.beh.out

C8_Witness ==
    /\ Invoked /\ IsDecorated
    /\ last.context = AbsentContext
    /\ Len(Layers) = 2
    /\ Layers[1].name = "logLambdaInfo" /\ Layers[2].name = "handleErrors"
    /\ last.beh.out.kind = "throw"
    /\ last.out = Return(Response(500, "Internal server error", "unknown"))
    /\ served = 2

\* The layer at depth k logs the error err after position i and before its
\* own call ends.
LogsErrorAfter(k, i, err) ==
    \E l \in LogsBy(k), j \in ExitsAt(k) :
        i < l /\ l < j /\ At(l).line.error = AsError(err)

\* C9 as stated: every layer wrapped around the handler logs the handler's
\* error before it is re-raised or converted.
C9_EveryLayerLogsError ==
    (HandlerThrew /\ IsValidContext(last.context)) =>
        \A k \in Depths : \E l \in LogsBy(k), j \in ExitsAt(k) :
            l < j /\ At(l).line.error = AsError(last.beh.out.error)

Catching == {"withLogging", "withErrorHandling", "handleErrors"}

\* C9 as amended: a withLogging, withErrorHandling or handleErrors layer
\* that the error reaches (the call it wraps ends by throwing) logs that
\* error before re-raising or converting it; logLambdaInfo and
\* measurePerformance log no error, and no layer logs an error when the
\* call it wraps returns.
C9_ReachedCatchingLayersLogError ==
    (Invoked /\ IsValidContext(last.context)) =>
        \A k \in Depths :
            /\ \A i \in ExitsAt(k + 1) :
                 IF At(i).out.kind = "throw" /\ Layers[k].name \in Catching
                 THEN LogsErrorAfter(k, i, At(i).out.error)
                 ELSE \A l \in LogsBy(k) : At(l).line.error = NoError
            /\ ExitsAt(k + 1) = {} => \A l \in LogsBy(k) : At(l).line.error = NoError

C9_Witness ==
    /\ HandlerThrew /\ IsMiddleware
    /\ Layers = <<Layer("withErrorHandling", NoOptions), Layer("withLogging", NoOptions)>>
    /\ \E l \in LogsBy(1) : At(l).line.error = AsError(last.beh.out.error)
    /\ \E l \in LogsBy(2) : At(l).line.error = AsError(last.beh.out.error)
    /\ last.out.kind = "return"

\* The "Lambda invocation started" records of the last call.
Started ==
    {i \in Positions : At(i).ev = "log" /\ At(i).who = "withLogging"
                       /\ At(i).line.message = "Lambda invocation started"}

\* C10: the isColdStart flag of the "Lambda invocation started" record is
\* true on the first invocation served by the process and false on every
\* later one, and it equals the ColdStart value of the same line's metadata.
C10_StartedReportsColdStart ==
    (Invoked /\ Len(Layers) >= 1) =>
        \A i \in Started :
            /\ At(i).line.data.isColdStart = At(i).line.meta.coldStart
            /\ At(i).depth = 1 => At(i).line.data.isColdStart = last.before.first

\* The events of the call of the layer at depth k: what it logs, and the
\* ends of the call it wraps.
Outcomes == {"Lambda invocation completed", "Lambda invocation failed"}
OutcomeLogs(k) == {l \in LogsBy(k) : At(l).line.message \in Outcomes}
StartedLogs(k) == {l \in LogsBy(k) : At(l).line.message = "Lambda invocation started"}
Inside(k) == {i \in Positions : At(i).depth > k}

\* The call of the withLogging layer at depth k went: started record, one
\* call of the wrapped handler, then the completed record and the wrapped
\* handler's result, or the failed record.
LoggedInOrder(k) ==
    /\ Cardinality(StartedLogs(k)) = 1
    /\ Cardinality(ExitsAt(k + 1)) = 1
    /\ Cardinality(OutcomeLogs(k)) = 1
    /\ LogsBy(k) = StartedLogs(k) \cup OutcomeLogs(k)
    /\ \A s \in StartedLogs(k), i \in Inside(k), l \in OutcomeLogs(k) :
         /\ s < i /\ i < l
    /\ \A i \in ExitsAt(k + 1), l \in OutcomeLogs(k), j \in ExitsAt(k) :
         IF At(i).out.kind = "return"
         THEN /\ At(l).line.message = "Lambda invocation completed"
              /\ At(j).out = At(i).out
         ELSE /\ At(l).line.message = "Lambda invocation failed"
              /\ At(j).out.kind = "throw"

\* C16: every invocation of a withLogging-wrapped handler produces the
\* started record, then exactly one call of the wrapped handler, then
\* exactly one of the completed record (result returned unchanged) and the
\* failed record, never both and neither before the handler call ends.
C16_StartedCallThenOneOutcome ==
    Invoked =>
        \A k \in Depths :
            (Layers[k].name = "withLogging" /\ ExitsAt(k) # {}) => LoggedInOrder(k)

\* The same order for every invocation whose started record can be
\* rendered: outside development mode, or with an event that is not
\* circular.
OrderWhenStartedRenders ==
    (Invoked /\ ~(nodeEnvDevelopment /\ last.event = "circular")) =>
        \A k \in Depths :
            (Layers[k].name = "withLogging" /\ ExitsAt(k) # {}) => LoggedInOrder(k)

(***************************************************************************)
(* Claims about the logger (checked under SpecLogger).                     *)
(***************************************************************************)
Logged == last.kind = "log"

\* { ...options, ...callOptions } of the last log call.
MergedOptions == Merge(last.logger.options, last.callOptions)

\* The line carries the metadata segment / the "Data:" segment.
HasMeta == last.line.meta.shown
HasData == last.line.data # NoData

\* C11: for each log call the metadata segment is included exactly when the
\* merged options (call-time value over construction-time value, field by
\* field) have includeLambdaInfo, and the data segment exactly when there is
\* a payload and the merged options have includeData.
C11_MergedOptionsDecideSegments ==
    (Logged /\ last.thrown = NoError) =>
        /\ HasMeta = MergedOptions.includeLambdaInfo
        /\ HasData = (last.data # NoData /\ MergedOptions.includeData)

\* C12: a log call with call-time includeData: false renders no "Data:"
\* segment for any payload, whatever the logger was constructed with, and
\* the line is emitted.
C12_CallTimeFalseSuppressesData ==
    (Logged /\ "includeData" \in DOMAIN last.callOptions
            /\ ~last.callOptions["includeData"]) =>
        /\ last.thrown = NoError
        /\ last.line.sink = last.sink
        /\ ~HasData

\* A payload that would be rendered (and one that could not be) is left
\* out by the call-time option although the logger includes data.
C12_Witness ==
    /\ Logged
    /\ last.logger.options.includeData
    /\ last.callOptions = [includeData |-> FALSE]
    /\ last.data = CircularData
    /\ last.line.sink = "warn"
    /\ last.line.message = "message"
    /\ ~HasData

\* C13: a log call never throws to the caller; when the payload cannot be
\* JSON-rendered the line is still emitted.
C13_LogNeverThrows ==
    Logged => (last.thrown = NoError /\ last.line.sink = last.sink)

(***************************************************************************)
(* Claims about decoration (checked under SpecDecorate).                   *)
(***************************************************************************)
Decorating == step.op \in {"decorate", "compose"}

\* C14: an annotation attached to the method is still returned, with its
\* value, after any stack of logLambdaInfo, measurePerformance and
\* handleErrors applied directly or through composeDecorators; no
\* decoration step removes or changes a metadata key that existed.
C14_AnnotationsSurviveDecoration ==
    /\ \A key \in DOMAIN annotated : getMetadata(metadata, key) = annotated[key]
    /\ getMetadataKeys(metadata) \ {Annotator.options.key} = DOMAIN annotated
    /\ Decorating =>
         \A key \in getMetadataKeys(step.metadataBefore) :
            getMetadata(metadata, key) = getMetadata(step.metadataBefore, key)

\* An inherited and an own annotation after three wrapping decorators, the
\* last two applied through composeDecorators.
C14_Witness ==
    /\ step.op = "compose"
    /\ Len(step.decorators) = 2
    /\ Len(applied) = 3
    /\ DOMAIN annotated = {"route", "role"}
    /\ DOMAIN metadata.inherited = {"route"}
    /\ "route" \in DOMAIN metadata.own
    /\ getMetadata(metadata, "route") = "GET"
    /\ getMetadata(metadata, "role") = "POST"

\* Dn(...D2(D1(descriptor))) written out: the last-listed decorator is
\* applied to what the others produced.
RECURSIVE NestedDecorators(_, _, _)
NestedDecorators(decorators, desc, meta) ==
    IF decorators = <<>> THEN [descriptor |-> desc, metadata |-> meta]
    ELSE foldStep(NestedDecorators(SubSeq(decorators, 1, Len(decorators) - 1),
                                   desc, meta),
                  decorators[Len(decorators)])

\* C15: composeDecorators(D1, ..., Dn) gives the descriptor
\* Dn(...D2(D1(descriptor))), a decorator that returns nothing leaving the
\* descriptor as it was; when the method is called the last-listed
\* decorator runs outermost and the first-listed closest to the original.
C15_ComposeDecoratorsFoldsLeft ==
    /\ step.op = "compose" =>
         LET byHand == NestedDecorators(step.decorators, step.before,
                                        step.metadataBefore)
         IN /\ descriptor = byHand.descriptor
            /\ metadata = byHand.metadata
    /\ Len(descriptor.value.layers) = Len(applied)
    /\ \A k \in DOMAIN applied :
         descriptor.value.layers[k] = applied[Len(applied) - k + 1]
    /\ last.kind = "invoke" =>
         \A i \in Positions :
            IF At(i).who = "handler" THEN At(i).depth = Len(applied) + 1
            ELSE At(i).who = applied[Len(applied) - At(i).depth + 1].name

\* composeDecorators(handleErrors(), logLambdaInfo()) on a method that
\* throws: logLambdaInfo logs first, handleErrors inside it converts the
\* error.
C15_Witness ==
    /\ step.op = "compose"
    /\ step.decorators = <<Layer("handleErrors", NoOptions),
                           Layer("logLambdaInfo", NoOptions)>>
    /\ applied = step.decorators
    /\ last.kind = "invoke"
    /\ last.beh.out.kind = "throw"
    /\ At(1).ev = "log" /\ At(1).who = "logLambdaInfo" /\ At(1).depth = 1
    /\ \E i \in Positions : At(i).ev = "log" /\ At(i).who = "handleErrors"
                            /\ At(i).depth = 2
    /\ last.out = Return(ErrorResponse(last.context.awsRequestId))

(***************************************************************************)
(* Claims about the execution timer (checked under SpecTimer).             *)
(***************************************************************************)
Recorded(n) == n \in DOMAIN lastMark

\* The end mark the caller named, if any.
EndNamed == ret.endMark.given

\* C5: measure fails, returns no value and leaves the measurements
\* unchanged whenever startMark was never marked, or endMark is given and
\* was never marked, for every mark name.
C5_UnsetMarkAlwaysFails ==
    (/\ ret.op = "measure"
     /\ \/ ~Recorded(ret.startMark)
        \/ EndNamed /\ ~Recorded(ret.endMark.name))
    => (ret.out.kind = "throw" /\ measures = ret.before)

\* C6: measure(n, a, b) returns the instant of the most recent mark(b)
\* minus the instant of the most recent mark(a), and no measure call
\* changes or removes a mark.
C6_MeasureIsMarkDifference ==
    /\ marks = [n \in DOMAIN lastMark |-> hrtime(lastMark[n])]
    /\ (/\ ret.op = "measure"
        /\ EndNamed
        /\ Recorded(ret.startMark)
        /\ Recorded(ret.endMark.name))
       => ret.out = Returned(Num(lastMark[ret.endMark.name] - lastMark[ret.startMark]))

\* C7 as stated: every duration measure returns and stores is non-negative
\* for every choice of startMark and endMark among the recorded marks.
C7_NeverNegative ==
    (/\ ret.op = "measure"
     /\ Recorded(ret.startMark)
     /\ EndNamed => Recorded(ret.endMark.name))
    => (/\ ret.out.kind = "return"
        /\ ret.out.value.kind = "number"
        /\ ret.out.value.ns >= 0
        /\ measures[ret.name] = ret.out.value)

\* The end instant the code uses: an empty endMark counts as not given.
UsesNow == ~EndNamed \/ ret.endMark.name = ""

\* C7 as amended: the duration returned and stored is non-negative when
\* endMark is omitted (or empty) or was marked no earlier than startMark,
\* and negative when endMark was marked before startMark.
C7_NonNegativeWhenOrdered ==
    (/\ ret.op = "measure"
     /\ Recorded(ret.startMark)
     /\ UsesNow \/ Recorded(ret.endMark.name))
    => (/\ ret.out.kind = "return"
        /\ ret.out.value.kind = "number"
        /\ measures[ret.name] = ret.out.value
        /\ (ret.out.value.ns >= 0) <=>
              (UsesNow \/ lastMark[ret.endMark.name] >= lastMark[ret.startMark]))

\* A measurement between two marks a second boundary apart, the end mark's
\* nanosecond part smaller than the start mark's.
C7_Witness ==
    /\ ret.op = "measure"
    /\ EndNamed /\ ret.endMark.name # ""
    /\ Recorded(ret.startMark) /\ Recorded(ret.endMark.name)
    /\ hrtime(lastMark[ret.endMark.name])[2] < hrtime(lastMark[ret.startMark])[2]
    /\ ret.out = Returned(Num(1))

====
